---------------------------- MODULE Spec2Model ----------------------------
(***************************************************************************)
(* Model of the projects_fot_analysis DAG (src/fot_analysis_dag.py):       *)
(* three extract tasks, transform_data, load_to_database, generate_report  *)
(* and send_email_notification, with the hand-off store (XCom), the SQLite *)
(* table project_fot, the two output files and the mail outbox as state.   *)
(*                                                                         *)
(* Every task callable is one operator that computes the outcome of one    *)
(* invocation, given the point (if any) at which the environment makes it  *)
(* raise.  Payments and hours are integers in the model.                   *)
(***************************************************************************)
EXTENDS Integers, Sequences, FiniteSets, TLC

VARIABLES
    ti,        \* task id -> task instance state of the current DAG run
    runs,      \* task id -> error of every finished attempt ("none" = no error)
    xcom,      \* hand-off store: key -> [present, val]
    inFiles,   \* the three source files: name -> [exists, data]
    db,        \* the SQLite database: [exists, rows, seq] of table project_fot
    outFiles,  \* report and CSV file: name -> [exists, ...]
    outbox,    \* emails sent, in order
    clock,     \* CURRENT_TIMESTAMP
    last,      \* the task whose callable ran last
    pre        \* db, outFiles, outbox and xcom as they were before that invocation

vars == <<ti, runs, xcom, inFiles, db, outFiles, outbox, clock, last, pre>>

---------------------------------------------------------------------------
(* Bounds of the model *)

MaxAssign == 2   \* most assignment rows in projects.xlsx
MaxRoster == 2   \* most roster rows in employees.csv
MaxCalls == 2    \* most direct invocations of one callable
MaxClock == 1    \* CURRENT_TIMESTAMP ranges over 0..MaxClock

(* Program constants *)

retries == 1

---------------------------------------------------------------------------
(* Generic helpers *)

SeqsUpTo(S, n) == UNION {[1..k -> S] : k \in 0..n}

RECURSIVE SumSeq(_)
SumSeq(s) == IF s = <<>> THEN 0 ELSE Head(s) + SumSeq(Tail(s))

RECURSIVE SortedSeq(_)
SortedSeq(S) ==
    IF S = {} THEN <<>>
    ELSE LET m == CHOOSE x \in S : \A y \in S : x <= y
         IN <<m>> \o SortedSeq(S \ {m})

---------------------------------------------------------------------------
(* Value domains of the three sources *)

ProjectIds == {1, 2}
EmployeeIds == {1, 2}
Hours == {1, 2}
Positions == {"developer", "qa"}

AssignmentRows ==
    [project_id : ProjectIds, employee_id : EmployeeIds, hours_worked : Hours]
EmployeeRows == [employee_id : EmployeeIds, position : Positions]

RateTables ==
    { <<>>,
      <<[position |-> "developer", rate_per_hour |-> 3]>>,
      <<[position |-> "developer", rate_per_hour |-> 3],
        [position |-> "qa", rate_per_hour |-> 5]>>,
      <<[position |-> "developer", rate_per_hour |-> 3],
        [position |-> "developer", rate_per_hour |-> 5]>> }

---------------------------------------------------------------------------
(* pandas: DataFrame, left merge, groupby/sum *)

\* A float cell: NaN or a number.
NaN == [nan |-> TRUE, v |-> 0]
Num(x) == [nan |-> FALSE, v |-> x]
NoPosition == "NaN"

\* pd.DataFrame(records): the columns are those of the records, so a frame
\* built from an empty (or absent) record list has no columns at all.
DataFrame(x) ==
    [columns |-> IF x.present /\ x.val # <<>> THEN DOMAIN x.val[1] ELSE {},
     rows |-> IF x.present THEN x.val ELSE <<>>]

\* pd.merge(projects_df, employees_df, on='employee_id', how='left'):
\* every left row is kept, once per matching right row, in left order.
EmployeeMatches(row, employees) ==
    SelectSeq(employees, LAMBDA e : e.employee_id = row.employee_id)

\* Faulty variant: an inner join, rows without a matching employee dropped.
RECURSIVE MergeEmployeesInner(_, _)
MergeEmployeesInner(projects, employees) ==
    IF projects = <<>> THEN <<>>
    ELSE LET row == Head(projects)
             m == EmployeeMatches(row, employees)
         IN [i \in 1..Len(m) |->
                [project_id |-> row.project_id,
                 employee_id |-> row.employee_id,
                 hours_worked |-> row.hours_worked,
                 position |-> m[i].position]]
            \o MergeEmployeesInner(Tail(projects), employees)

RECURSIVE MergeEmployees(_, _)
MergeEmployees(projects, employees) ==
    IF projects = <<>> THEN <<>>
    ELSE LET row == Head(projects)
             m == EmployeeMatches(row, employees)
             out == IF m = <<>>
                    THEN <<[project_id |-> row.project_id,
                            employee_id |-> row.employee_id,
                            hours_worked |-> row.hours_worked,
                            position |-> NoPosition]>>
                    ELSE [i \in 1..Len(m) |->
                            [project_id |-> row.project_id,
                             employee_id |-> row.employee_id,
                             hours_worked |-> row.hours_worked,
                             position |-> m[i].position]]
         IN out \o MergeEmployees(Tail(projects), employees)

\* pd.merge(merged_df, rates_df, on='position', how='left') followed by
\* merged_df['payment'] = hours_worked * rate_per_hour (NaN propagates).
RateMatches(row, rates) ==
    SelectSeq(rates, LAMBDA r : r.position = row.position)

RECURSIVE MergeRates(_, _)
MergeRates(merged, rates) ==
    IF merged = <<>> THEN <<>>
    ELSE LET row == Head(merged)
             m == RateMatches(row, rates)
             out == IF m = <<>>
                    THEN <<[project_id |-> row.project_id,
                            hours_worked |-> row.hours_worked,
                            rate_per_hour |-> NaN]>>
                    ELSE [i \in 1..Len(m) |->
                            [project_id |-> row.project_id,
                             hours_worked |-> row.hours_worked,
                             rate_per_hour |-> Num(m[i].rate_per_hour)]]
         IN out \o MergeRates(Tail(merged), rates)

\* Faulty variant: the rate alone, hours_worked forgotten.
PaymentIgnoringHours(row) ==
    IF row.rate_per_hour.nan THEN NaN ELSE Num(row.rate_per_hour.v)

Payment(row) ==
    IF row.rate_per_hour.nan THEN NaN
    ELSE Num(row.hours_worked * row.rate_per_hour.v)

\* Series.sum(): NaN cells are skipped, an all-NaN group sums to 0.
RECURSIVE SumSkipNa(_)
SumSkipNa(cells) ==
    IF cells = <<>> THEN 0
    ELSE (IF Head(cells).nan THEN 0 ELSE Head(cells).v) + SumSkipNa(Tail(cells))

\* groupby('project_id').agg(total_hours=sum, total_payment=sum).reset_index():
\* one row per key, keys ascending.
GroupRows(merged, p) == SelectSeq(merged, LAMBDA r : r.project_id = p)

\* Faulty variant: groups are formed from the rows with a payment only.
AggregateMatchedOnly(merged) ==
    LET paid == SelectSeq(merged, LAMBDA r : ~r.rate_per_hour.nan)
        keys == SortedSeq({paid[i].project_id : i \in 1..Len(paid)})
    IN [k \in 1..Len(keys) |->
          LET g == GroupRows(paid, keys[k])
          IN [project_id |-> keys[k],
              total_hours |-> SumSeq([i \in 1..Len(g) |-> g[i].hours_worked]),
              total_payment |-> SumSkipNa([i \in 1..Len(g) |-> Payment(g[i])])]]

Aggregate(merged) ==
    LET keys == SortedSeq({merged[i].project_id : i \in 1..Len(merged)})
    IN [k \in 1..Len(keys) |->
          LET g == GroupRows(merged, keys[k])
          IN [project_id |-> keys[k],
              total_hours |-> SumSeq([i \in 1..Len(g) |-> g[i].hours_worked]),
              total_payment |-> SumSkipNa([i \in 1..Len(g) |-> Payment(g[i])])]]

---------------------------------------------------------------------------
(* Hand-off store *)

Keys == {"employees_data", "projects_data", "rates_data", "fot_stats",
         "report", "report_file_path", "csv_file_path", "result_data"}

NoReport == [generated |-> 0, count |-> 0, blocks |-> <<>>]

\* xcom_pull of a key nobody pushed returns None.
None(key) ==
    [present |-> FALSE,
     val |-> IF key = "report" THEN NoReport
             ELSE IF key \in {"report_file_path", "csv_file_path"} THEN ""
             ELSE <<>>]
Some(v) == [present |-> TRUE, val |-> v]

EmptyXcom == [k \in Keys |-> None(k)]

\* The outcome of one invocation of a callable.
Outcome(error, x, d, f, o) ==
    [err |-> error, xcom |-> x, db |-> d, outFiles |-> f, outbox |-> o]

---------------------------------------------------------------------------
(* The task callables *)

\* extract_*_data: read the file, push its records; any error is re-raised.
ExtractData(key, file, readFails, x, d, f, o) ==
    IF ~file.exists \/ readFails
    THEN Outcome("read failed", x, d, f, o)
    ELSE Outcome("none", [x EXCEPT ![key] = Some(file.data)], d, f, o)

extract_emplooyes_data(readFails, x, d, f, o) ==
    ExtractData("employees_data", inFiles["employees.csv"], readFails, x, d, f, o)

extract_projects_data(readFails, x, d, f, o) ==
    ExtractData("projects_data", inFiles["projects.xlsx"], readFails, x, d, f, o)

extract_rates_data(readFails, x, d, f, o) ==
    ExtractData("rates_data", inFiles["rates.json"], readFails, x, d, f, o)

\* transform_data: both merges raise KeyError when a frame lacks the key column.
transform_data(x, d, f, o) ==
    LET employees_df == DataFrame(x["employees_data"])
        projects_df == DataFrame(x["projects_data"])
        rates_df == DataFrame(x["rates_data"])
    IN IF "employee_id" \notin projects_df.columns
          \/ "employee_id" \notin employees_df.columns
       THEN Outcome("KeyError", x, d, f, o)
       ELSE IF "position" \notin rates_df.columns
       THEN Outcome("KeyError", x, d, f, o)
       ELSE LET merged_df == MergeRates(
                    MergeEmployees(projects_df.rows, employees_df.rows),
                    rates_df.rows)
                fot_df == Aggregate(merged_df)
            IN Outcome("none", [x EXCEPT !["fot_stats"] = Some(fot_df)], d, f, o)

---------------------------------------------------------------------------
(* sqlite3: one connection, its implicit transaction, table project_fot *)

NoTable == [exists |-> FALSE, rows |-> <<>>, seq |-> 0]

\* sqlite3.connect(DB_PATH)
Connect(d) == [committed |-> d, work |-> d, inTxn |-> FALSE]

\* CREATE TABLE IF NOT EXISTS project_fot (id INTEGER PRIMARY KEY
\* AUTOINCREMENT, ...): DDL opens no transaction; outside one it is
\* committed at once.
ExecCreate(c) ==
    LET w == IF c.work.exists THEN c.work
             ELSE [exists |-> TRUE, rows |-> <<>>, seq |-> c.work.seq]
    IN IF c.inTxn THEN [c EXCEPT !.work = w]
       ELSE [c EXCEPT !.work = w, !.committed = w]

\* Faulty variant: the DELETE is committed on its own (autocommit mode).
ExecDeleteAutocommit(c) ==
    [c EXCEPT !.work = [@ EXCEPT !.rows = <<>>],
              !.committed = [c.work EXCEPT !.rows = <<>>]]

\* Faulty variant: the table is not cleared before the insert.
ExecDeleteNothing(c) == [c EXCEPT !.inTxn = TRUE]

\* DELETE FROM project_fot: the module opens a transaction before the
\* statement; the AUTOINCREMENT sequence is not reset.
ExecDelete(c) ==
    [c EXCEPT !.work = [@ EXCEPT !.rows = <<>>], !.inTxn = TRUE]

\* One INSERT of a record of the frame: id from the AUTOINCREMENT sequence,
\* analysis_date from DEFAULT CURRENT_TIMESTAMP.
InsertRow(c, rec, now) ==
    [c EXCEPT !.work =
        [exists |-> TRUE,
         rows |-> Append(c.work.rows,
                         [id |-> c.work.seq + 1,
                          project_id |-> rec.project_id,
                          total_hours |-> rec.total_hours,
                          total_payment |-> rec.total_payment,
                          analysis_date |-> now]),
         seq |-> c.work.seq + 1],
      !.inTxn = TRUE]

RECURSIVE InsertRows(_, _, _)
InsertRows(c, recs, now) ==
    IF recs = <<>> THEN c
    ELSE InsertRows(InsertRow(c, Head(recs), now), Tail(recs), now)

Commit(c) == [c EXCEPT !.committed = c.work, !.inTxn = FALSE]

Rollback(c) == [c EXCEPT !.work = c.committed, !.inTxn = FALSE]

\* conn.close(): what was not committed is lost.
Close(c) == c.committed

\* df.to_sql('project_fot', conn, if_exists='append', index=False): the rows
\* are inserted and committed; if an insert raises after k rows, the
\* transaction is rolled back.
ToSql(c, recs, now) == Commit(InsertRows(c, recs, now))

ToSqlFailing(c, recs, k, now) == Rollback(InsertRows(c, SubSeq(recs, 1, k), now))

\* Faulty variant: only None is rejected (if fot_stats is None).
NoDataNoneOnly(stats) == ~stats.present

\* if not fot_stats: None and the empty list are both rejected.
NoData(stats) == ~stats.present \/ stats.val = <<>>

LoadFaults == {"none", "connect", "create", "delete", "insert", "commit", "verify"}

\* load_to_database; fault names the statement that raises (or at which the
\* process is interrupted), k the rows inserted before an "insert" fault.
load_to_database(fault, k, now, x, d, f, o) ==
    LET fot_stats == x["fot_stats"]
        c0 == Connect(d)
        c1 == ExecCreate(c0)
        c2 == ExecDelete(c1)
        c3 == ToSql(c2, fot_stats.val, now)
        c4 == Commit(c3)
    IN IF NoData(fot_stats)
       THEN Outcome("ValueError", x, d, f, o)
       ELSE CASE fault = "connect" -> Outcome("connect failed", x, d, f, o)
              [] fault = "create" -> Outcome("CREATE failed", x, Close(c0), f, o)
              [] fault = "delete" -> Outcome("DELETE failed", x, Close(c1), f, o)
              [] fault = "insert" ->
                   Outcome("INSERT failed", x,
                           Close(ToSqlFailing(c2, fot_stats.val, k, now)), f, o)
              [] fault = "commit" -> Outcome("COMMIT failed", x, Close(c3), f, o)
              [] fault = "verify" -> Outcome("SELECT failed", x, Close(c4), f, o)
              [] OTHER -> Outcome("none", x, Close(c4), f, o)

---------------------------------------------------------------------------
(* generate_report *)

ReportFile == "/opt/airflow/project_fot_report.txt"
CsvFile == "/opt/airflow/project_fot_data.csv"

NoFile == [exists |-> FALSE, report |-> NoReport, rows |-> <<>>]

IsDescending(s) ==
    \A i \in 1..(Len(s) - 1) : s[i].total_payment >= s[i + 1].total_payment

RowOrders(s) ==
    {[i \in 1..Len(s) |-> s[p[i]]] :
        p \in {q \in [1..Len(s) -> 1..Len(s)] : \A i, j \in 1..Len(s) :
                                                   q[i] = q[j] => i = j}}

\* Faulty variant: ORDER BY total_payment (ascending).
OrderByPaymentAsc(rows) ==
    {s \in RowOrders(rows) :
        \A i \in 1..(Len(s) - 1) : s[i].total_payment <= s[i + 1].total_payment}

\* SELECT * FROM project_fot ORDER BY total_payment DESC: the order of rows
\* with equal total_payment is not fixed by the query.
OrderByPaymentDesc(rows) == {s \in RowOrders(rows) : IsDescending(s)}

\* f"{x:.2f}" of a whole number.
Fmt2(x) == [units |-> x, cents |-> 0]

ReportText(df, now) ==
    [generated |-> now,
     count |-> Len(df),
     blocks |-> [i \in 1..Len(df) |->
                   [project_id |-> df[i].project_id,
                    total_hours |-> df[i].total_hours,
                    total_payment |-> Fmt2(df[i].total_payment)]]]

\* Faulty variant: result_data is not pushed.
PushReportWithoutData(x, report, df) ==
    [x EXCEPT !["report"] = Some(report),
              !["report_file_path"] = Some(ReportFile),
              !["csv_file_path"] = Some(CsvFile)]

\* The four xcom_push calls that end generate_report.
PushReport(x, report, df) ==
    [x EXCEPT !["report"] = Some(report),
              !["report_file_path"] = Some(ReportFile),
              !["csv_file_path"] = Some(CsvFile),
              !["result_data"] = Some(df)]

ReportFaults == {"none", "connect", "read", "write_report", "write_csv", "push"}

\* generate_report; df is the result of the query, fault the statement that
\* raises.
generate_report(fault, df, now, x, d, f, o) ==
    LET report == ReportText(df, now)
        f1 == [f EXCEPT ![ReportFile] =
                 [exists |-> TRUE, report |-> report, rows |-> <<>>]]
        f2 == [f1 EXCEPT ![CsvFile] =
                 [exists |-> TRUE, report |-> NoReport, rows |-> df]]
    IN CASE fault = "connect" -> Outcome("connect failed", x, d, f, o)
         [] ~d.exists -> Outcome("no such table", x, d, f, o)
         [] fault = "read" -> Outcome("SELECT failed", x, d, f, o)
         [] fault = "write_report" -> Outcome("report write failed", x, d, f, o)
         [] fault = "write_csv" -> Outcome("CSV write failed", x, d, f1, o)
         [] fault = "push" -> Outcome("xcom_push failed", x, d, f2, o)
         [] OTHER -> Outcome("none", PushReport(x, report, df), d, f2, o)

---------------------------------------------------------------------------
(* send_email_with_attachments *)

\* The files that exist, report first.
Attachments(f) ==
    (IF f[ReportFile].exists THEN <<ReportFile>> ELSE <<>>)
    \o (IF f[CsvFile].exists THEN <<CsvFile>> ELSE <<>>)

HtmlTable(result_data) ==
    [i \in 1..Len(result_data) |->
        [project_id |-> result_data[i].project_id,
         total_hours |-> result_data[i].total_hours,
         total_payment |-> Fmt2(result_data[i].total_payment)]]

FullEmail(result_data, files) ==
    [kind |-> "full", table |-> HtmlTable(result_data), files |-> files,
     note |-> "none"]

\* Faulty variant: the body does not name the error.
FallbackEmailWithoutReason(e) ==
    [kind |-> "fallback", table |-> <<>>, files |-> <<>>, note |-> "none"]

FallbackEmail(e) ==
    [kind |-> "fallback", table |-> <<>>, files |-> <<>>, note |-> e]

\* send_email_with_attachments; sendFails: the first send_email raises,
\* fallbackFails: the send_email of the except branch raises.
send_email_with_attachments(sendFails, fallbackFails, x, d, f, o) ==
    LET result_data == x["result_data"]
        e == IF ~result_data.present THEN "TypeError"
             ELSE IF sendFails THEN "send_email failed"
             ELSE "none"
    IN IF e = "none"
       THEN Outcome("none", x, d, f,
                    Append(o, FullEmail(result_data.val, Attachments(f))))
       ELSE IF fallbackFails
       THEN Outcome("fallback send_email failed", x, d, f, o)
       ELSE Outcome(e, x, d, f, Append(o, FallbackEmail(e)))

---------------------------------------------------------------------------
(* The DAG: tasks, dependencies, retry policy *)

Extracts == {"extract_emplooyes", "extract_projects", "extract_rates"}

Tasks == Extracts \cup {"transform_data", "load_to_database", "generate_report",
                        "send_email_notification"}

\* Faulty variant: extract_rates_task left out of the list.
UpstreamWithoutRates(t) ==
    CASE t = "transform_data" -> {"extract_emplooyes", "extract_projects"}
      [] t = "load_to_database" -> {"transform_data"}
      [] t = "generate_report" -> {"load_to_database"}
      [] t = "send_email_notification" -> {"generate_report"}
      [] OTHER -> {}

\* [extract_emplooyes_task, extract_projects_task, extract_rates_task]
\*     >> transform_task >> load_task >> report_task >> email_task
Upstream(t) ==
    CASE t = "transform_data" -> Extracts
      [] t = "load_to_database" -> {"transform_data"}
      [] t = "generate_report" -> {"load_to_database"}
      [] t = "send_email_notification" -> {"generate_report"}
      [] OTHER -> {}

Snapshot == [db |-> db, outFiles |-> outFiles, outbox |-> outbox, xcom |-> xcom]

\* A task instance that raised is retried while it has retries left.
StateAfter(t, error) ==
    IF error = "none" THEN "success"
    ELSE IF Len(runs[t]) < retries THEN "up_for_retry"
    ELSE "failed"

\* The scheduler starts a task once all its upstream tasks have succeeded
\* (trigger rule all_success).
StartTask(t) ==
    /\ ti[t] \in {"none", "up_for_retry"}
    /\ \A u \in Upstream(t) : ti[u] = "success"
    /\ ti' = [ti EXCEPT ![t] = "running"]
    /\ UNCHANGED <<runs, xcom, inFiles, db, outFiles, outbox, clock, last, pre>>

\* A task with a failed upstream task is never started.
MarkUpstreamFailed(t) ==
    /\ ti[t] = "none"
    /\ \E u \in Upstream(t) : ti[u] \in {"failed", "upstream_failed"}
    /\ ti' = [ti EXCEPT ![t] = "upstream_failed"]
    /\ UNCHANGED <<runs, xcom, inFiles, db, outFiles, outbox, clock, last, pre>>

\* The end of one invocation of task t's callable with outcome out.
Finish(t, out) ==
    /\ ti' = [ti EXCEPT ![t] = StateAfter(t, out.err)]
    /\ runs' = [runs EXCEPT ![t] = Append(@, out.err)]
    /\ xcom' = out.xcom
    /\ db' = out.db
    /\ outFiles' = out.outFiles
    /\ outbox' = out.outbox
    /\ last' = t
    /\ pre' = Snapshot
    /\ UNCHANGED inFiles

RunExtractEmployees ==
    /\ ti["extract_emplooyes"] = "running"
    /\ \E readFails \in BOOLEAN :
         Finish("extract_emplooyes",
                extract_emplooyes_data(readFails, xcom, db, outFiles, outbox))
    /\ UNCHANGED clock

RunExtractProjects ==
    /\ ti["extract_projects"] = "running"
    /\ \E readFails \in BOOLEAN :
         Finish("extract_projects",
                extract_projects_data(readFails, xcom, db, outFiles, outbox))
    /\ UNCHANGED clock

RunExtractRates ==
    /\ ti["extract_rates"] = "running"
    /\ \E readFails \in BOOLEAN :
         Finish("extract_rates",
                extract_rates_data(readFails, xcom, db, outFiles, outbox))
    /\ UNCHANGED clock

RunTransform ==
    /\ ti["transform_data"] = "running"
    /\ Finish("transform_data", transform_data(xcom, db, outFiles, outbox))
    /\ UNCHANGED clock

RunLoad ==
    /\ ti["load_to_database"] = "running"
    /\ \E fault \in LoadFaults, now \in clock..MaxClock :
         \E k \in IF fault = "insert" THEN 0..Len(xcom["fot_stats"].val) ELSE {0} :
            /\ Finish("load_to_database",
                      load_to_database(fault, k, now, xcom, db, outFiles, outbox))
            /\ clock' = now

RunReport ==
    /\ ti["generate_report"] = "running"
    /\ \E fault \in ReportFaults, df \in OrderByPaymentDesc(db.rows) :
         Finish("generate_report",
                generate_report(fault, df, clock, xcom, db, outFiles, outbox))
    /\ UNCHANGED clock

RunEmail ==
    /\ ti["send_email_notification"] = "running"
    /\ \E sendFails \in BOOLEAN, fallbackFails \in BOOLEAN :
         Finish("send_email_notification",
                send_email_with_attachments(sendFails, fallbackFails,
                                            xcom, db, outFiles, outbox))
    /\ UNCHANGED clock

\* The callable of a finished task instance is invoked again with the
\* hand-off store as it is (a cleared or re-run task instance).
Reinvoke(t) ==
    /\ ti[t] \in {"success", "failed", "up_for_retry"}
    /\ Len(runs[t]) < MaxCalls
    /\ ti' = [ti EXCEPT ![t] = "running"]
    /\ UNCHANGED <<runs, xcom, inFiles, db, outFiles, outbox, clock, last, pre>>

---------------------------------------------------------------------------
(* Environments a DAG run can start in *)

File(data) == [exists |-> TRUE, data |-> data]
Missing == [exists |-> FALSE, data |-> <<>>]

\* The table as a successful load_to_database leaves it, the AUTOINCREMENT
\* sequence having reached seq before.
LoadedTable(stats, seq, now) ==
    Close(ToSql(ExecDelete(ExecCreate(Connect(
        [exists |-> FALSE, rows |-> <<>>, seq |-> seq]))), stats, now))

\* The files as a successful generate_report leaves them.
WrittenFiles(df, now) ==
    [n \in {ReportFile, CsvFile} |->
        IF n = ReportFile
        THEN [exists |-> TRUE, report |-> ReportText(df, now), rows |-> <<>>]
        ELSE [exists |-> TRUE, report |-> NoReport, rows |-> df]]

NoFiles == [n \in {ReportFile, CsvFile} |-> NoFile]

NoTasks == [t \in Tasks |-> "none"]
NoRuns == [t \in Tasks |-> <<>>]

Roster == <<[employee_id |-> 1, position |-> "developer"],
            [employee_id |-> 2, position |-> "qa"]>>

Rates == <<[position |-> "developer", rate_per_hour |-> 3],
           [position |-> "qa", rate_per_hour |-> 5]>>

PreviousStats == <<[project_id |-> 1, total_hours |-> 1, total_payment |-> 5]>>

PreviousTable == LoadedTable(PreviousStats, 0, 0)

EmployeeFiles == {Missing, File(<<>>), File(Roster)}

ProjectFiles ==
    {Missing, File(<<>>),
     File(<<[project_id |-> 1, employee_id |-> 1, hours_worked |-> 2],
            [project_id |-> 2, employee_id |-> 2, hours_worked |-> 1]>>)}

RateFiles == {File(Rates)}

---------------------------------------------------------------------------
(* One DAG run *)

Init ==
    /\ ti = NoTasks
    /\ runs = NoRuns
    /\ xcom = EmptyXcom
    /\ \E e \in EmployeeFiles, p \in ProjectFiles, r \in RateFiles :
         inFiles = [n \in {"employees.csv", "projects.xlsx", "rates.json"} |->
                      IF n = "employees.csv" THEN e
                      ELSE IF n = "projects.xlsx" THEN p ELSE r]
    /\ db \in {NoTable, PreviousTable}
    /\ outFiles \in {NoFiles, WrittenFiles(PreviousTable.rows, 0)}
    /\ outbox = <<>>
    /\ clock = 0
    /\ last = "none"
    /\ pre = Snapshot

Next ==
    \/ \E t \in Tasks : StartTask(t)
    \/ \E t \in Tasks : MarkUpstreamFailed(t)
    \/ RunExtractEmployees
    \/ RunExtractProjects
    \/ RunExtractRates
    \/ RunTransform
    \/ RunLoad
    \/ RunReport
    \/ RunEmail

Spec == Init /\ [][Next]_vars

---------------------------------------------------------------------------
(* transform_data: the three extract tasks have succeeded, their record    *)
(* sets are in the hand-off store and the callable has been started.       *)

AssignmentInputs == SeqsUpTo(AssignmentRows, MaxAssign)
RosterInputs == SeqsUpTo(EmployeeRows, MaxRoster)

Running(t) == [NoTasks EXCEPT ![t] = "running"]

InitTransform ==
    /\ ti = [t \in Tasks |-> IF t \in Extracts THEN "success"
                             ELSE IF t = "transform_data" THEN "running"
                             ELSE "none"]
    /\ runs = [t \in Tasks |-> IF t \in Extracts THEN <<"none">> ELSE <<>>]
    /\ \E e \in RosterInputs, p \in AssignmentInputs, r \in RateTables :
         /\ xcom = [EmptyXcom EXCEPT !["employees_data"] = Some(e),
                                     !["projects_data"] = Some(p),
                                     !["rates_data"] = Some(r)]
         /\ inFiles = [n \in {"employees.csv", "projects.xlsx", "rates.json"} |->
                         IF n = "employees.csv" THEN File(e)
                         ELSE IF n = "projects.xlsx" THEN File(p) ELSE File(r)]
    /\ db = NoTable
    /\ outFiles = NoFiles
    /\ outbox = <<>>
    /\ clock = 0
    /\ last = "none"
    /\ pre = Snapshot

NextTransform == RunTransform

SpecTransform == InitTransform /\ [][NextTransform]_vars

\* What the claims about transform_data speak of.
employees == xcom["employees_data"].val
assignments == xcom["projects_data"].val
rates == xcom["rates_data"].val
fot_stats == xcom["fot_stats"].val

TransformEnded == last = "transform_data"
TransformSucceeded == TransformEnded /\ ti["transform_data"] = "success"

UniqueRoster ==
    \A i, j \in 1..Len(employees) :
        employees[i].employee_id = employees[j].employee_id => i = j
UniqueRates ==
    \A i, j \in 1..Len(rates) : rates[i].position = rates[j].position => i = j
NonEmptyInputs == employees # <<>> /\ assignments # <<>> /\ rates # <<>>

InRoster(a) == \E i \in 1..Len(employees) : employees[i].employee_id = a.employee_id
PositionOf(a) ==
    employees[CHOOSE i \in 1..Len(employees) :
                 employees[i].employee_id = a.employee_id].position
HasRate(pos) == \E i \in 1..Len(rates) : rates[i].position = pos
RateOf(pos) == rates[CHOOSE i \in 1..Len(rates) : rates[i].position = pos].rate_per_hour

\* hours_worked * rate_per_hour, 0 without a matching employee or rate.
Contribution(a) ==
    IF InRoster(a) /\ HasRate(PositionOf(a))
    THEN a.hours_worked * RateOf(PositionOf(a))
    ELSE 0

ProjectRows(rows, p) == SelectSeq(rows, LAMBDA a : a.project_id = p)

\* Sum over the assignments of project p.
ExpectedHours(p) ==
    LET g == ProjectRows(assignments, p)
    IN SumSeq([i \in 1..Len(g) |-> g[i].hours_worked])
ExpectedPayment(p) ==
    LET g == ProjectRows(assignments, p)
    IN SumSeq([i \in 1..Len(g) |-> Contribution(g[i])])
\* The same sum with the assignments of unknown employees left out.
PaymentOfKnownEmployees(p) ==
    LET g == SelectSeq(ProjectRows(assignments, p), InRoster)
    IN SumSeq([i \in 1..Len(g) |-> Contribution(g[i])])

InputProjects == {assignments[i].project_id : i \in 1..Len(assignments)}
OutputRows(p) == {i \in 1..Len(fot_stats) : fot_stats[i].project_id = p}

\* C1 as stated: with unique employee_id and unique position values,
\* transform_data outputs for each project of the input a total_payment equal
\* to the sum of hours_worked * rate_per_hour over its assignments, unmatched
\* assignments counting 0.
C1_AsStated ==
    (TransformEnded /\ UniqueRoster /\ UniqueRates)
        => \A p \in InputProjects :
              \E i \in OutputRows(p) : fot_stats[i].total_payment = ExpectedPayment(p)

\* C1 amended: the same, for inputs none of which is empty; with an empty
\* roster, rate table or assignment list transform_data raises KeyError.
C1_PaymentIsSumOfContributions ==
    (TransformEnded /\ UniqueRoster /\ UniqueRates /\ NonEmptyInputs)
        => /\ TransformSucceeded
           /\ \A p \in InputProjects :
                 /\ OutputRows(p) # {}
                 /\ \A i \in OutputRows(p) :
                       fot_stats[i].total_payment = ExpectedPayment(p)

C1_Witness ==
    /\ TransformSucceeded /\ UniqueRoster /\ UniqueRates
    /\ \E p \in InputProjects :
         /\ ExpectedPayment(p) > 0
         /\ \E i \in 1..Len(assignments) :
               assignments[i].project_id = p /\ Contribution(assignments[i]) = 0
         /\ \E i \in OutputRows(p) : fot_stats[i].total_payment = ExpectedPayment(p)

\* C2 as stated: the output has exactly one row for every distinct project_id
\* of the assignments and no other row.
C2_AsStated ==
    TransformEnded
        => /\ \A p \in InputProjects : Cardinality(OutputRows(p)) = 1
           /\ \A i \in 1..Len(fot_stats) : fot_stats[i].project_id \in InputProjects

\* C2 amended: for inputs none of which is empty, transform_data succeeds and
\* its output has exactly one row per distinct project_id of the assignments
\* and no other row, also for a project none of whose assignments matched.
C2_OneRowPerProject ==
    (TransformEnded /\ NonEmptyInputs)
        => /\ TransformSucceeded
           /\ \A p \in InputProjects : Cardinality(OutputRows(p)) = 1
           /\ \A i \in 1..Len(fot_stats) : fot_stats[i].project_id \in InputProjects

C2_Witness ==
    /\ TransformSucceeded
    /\ Cardinality(InputProjects) = 2
    /\ \E p \in InputProjects :
         /\ \A i \in 1..Len(assignments) :
               assignments[i].project_id = p => Contribution(assignments[i]) = 0
         /\ Cardinality(OutputRows(p)) = 1

\* C3 as stated: an assignment of an employee absent from the roster is
\* retained; total_hours of a project is the sum of hours_worked over all its
\* assignments, and the assignment adds 0 to total_payment.
C3_AsStated ==
    TransformEnded
        => \A p \in InputProjects :
              \E i \in OutputRows(p) :
                 /\ fot_stats[i].total_hours = ExpectedHours(p)
                 /\ fot_stats[i].total_payment = PaymentOfKnownEmployees(p)

\* C3 amended: the same, when the roster has unique employee_id values, the
\* rate table unique positions and none of the inputs is empty (a duplicated
\* key repeats the assignment row, an empty input raises KeyError).
C3_UnmatchedRowsKeepHours ==
    (TransformEnded /\ UniqueRoster /\ UniqueRates /\ NonEmptyInputs)
        => \A p \in InputProjects :
              /\ OutputRows(p) # {}
              /\ \A i \in OutputRows(p) :
                    /\ fot_stats[i].total_hours = ExpectedHours(p)
                    /\ fot_stats[i].total_payment = PaymentOfKnownEmployees(p)

C3_Witness ==
    /\ TransformSucceeded /\ UniqueRoster /\ UniqueRates
    /\ \E k \in 1..Len(assignments) :
         /\ ~InRoster(assignments[k])
         /\ \E j \in 1..Len(assignments) :
               /\ j # k
               /\ assignments[j].project_id = assignments[k].project_id
               /\ Contribution(assignments[j]) > 0
         /\ \E i \in OutputRows(assignments[k].project_id) :
               /\ fot_stats[i].total_hours = ExpectedHours(assignments[k].project_id)
               /\ fot_stats[i].total_payment > 0

---------------------------------------------------------------------------
(* load_to_database on its own: any hand-off value, any table, invoked     *)
(* up to MaxCalls times in succession.                                     *)

StatsRows == [project_id : ProjectIds, total_hours : Hours, total_payment : {0, 3}]

\* Record lists of the shape transform_data pushes: one row per project,
\* project_id ascending; the empty list included.
StatsInputs ==
    {s \in SeqsUpTo(StatsRows, Cardinality(ProjectIds)) :
        \A i \in 1..(Len(s) - 1) : s[i].project_id < s[i + 1].project_id}

EmptyTable == Close(ExecCreate(Connect(NoTable)))

LoaderTables ==
    {NoTable, EmptyTable, PreviousTable,
     LoadedTable(<<[project_id |-> 1, total_hours |-> 2, total_payment |-> 3],
                   [project_id |-> 2, total_hours |-> 1, total_payment |-> 0]>>, 1, 0)}

InitLoader ==
    /\ ti = Running("load_to_database")
    /\ runs = NoRuns
    /\ \E v \in {None("fot_stats")} \cup {Some(s) : s \in StatsInputs} :
         xcom = [EmptyXcom EXCEPT !["fot_stats"] = v]
    /\ inFiles = [n \in {"employees.csv", "projects.xlsx", "rates.json"} |-> Missing]
    /\ db \in LoaderTables
    /\ outFiles = NoFiles
    /\ outbox = <<>>
    /\ clock = 0
    /\ last = "none"
    /\ pre = Snapshot

NextLoader == RunLoad \/ Reinvoke("load_to_database")

SpecLoader == InitLoader /\ [][NextLoader]_vars

LastError(t) == runs[t][Len(runs[t])]
LoadEnded == last = "load_to_database" /\ ti["load_to_database"] # "running"
LoadSucceeded == LoadEnded /\ LastError("load_to_database") = "none"

\* The last two invocations both succeeded; pre.db is then the table as the
\* first of them left it.
LoadedTwice ==
    /\ LoadSucceeded
    /\ Len(runs["load_to_database"]) >= 2
    /\ runs["load_to_database"][Len(runs["load_to_database"]) - 1] = "none"

DataOf(rows) ==
    [i \in 1..Len(rows) |->
        [project_id |-> rows[i].project_id,
         total_hours |-> rows[i].total_hours,
         total_payment |-> rows[i].total_payment]]
KeyedDataOf(rows) ==
    [i \in 1..Len(rows) |->
        [id |-> rows[i].id,
         project_id |-> rows[i].project_id,
         total_hours |-> rows[i].total_hours,
         total_payment |-> rows[i].total_payment]]
IdsOf(rows) == {rows[i].id : i \in 1..Len(rows)}

\* C4 as stated: after a second run with the same input the table has the
\* same row count and the same row values as after the first (analysis_date,
\* stamped at insertion, left aside).
C4_AsStated ==
    LoadedTwice
        => /\ Len(db.rows) = Len(pre.db.rows)
           /\ KeyedDataOf(db.rows) = KeyedDataOf(pre.db.rows)

\* C4 amended: after a second run with the same input the table has the same
\* row count and the same project_id, total_hours and total_payment values
\* as after the first, in the same order, one row per project; no row of the
\* first run survives: every id is new, the AUTOINCREMENT sequence going on
\* where the first run left it.
C4_ReloadReplacesRows ==
    LoadedTwice
        => /\ Len(db.rows) = Len(pre.db.rows)
           /\ DataOf(db.rows) = DataOf(pre.db.rows)
           /\ DataOf(db.rows) = xcom["fot_stats"].val
           /\ IdsOf(db.rows) \cap IdsOf(pre.db.rows) = {}
           /\ \A i, j \in 1..Len(db.rows) :
                 db.rows[i].project_id = db.rows[j].project_id => i = j

C4_Witness ==
    /\ LoadedTwice
    /\ Len(db.rows) = 2
    /\ DataOf(db.rows) = DataOf(pre.db.rows)

\* C5: however load_to_database ends, the rows of the table are either
\* exactly the rows it held before (same ids) or exactly the new rows, all
\* of them with new ids: never none of a non-empty table, never a part.
C5_DeleteInsertAtomic ==
    LoadEnded
        => \/ db.rows = pre.db.rows
           \/ /\ DataOf(db.rows) = xcom["fot_stats"].val
              /\ db.rows # <<>>
              /\ IdsOf(db.rows) \cap IdsOf(pre.db.rows) = {}

C5_Witness ==
    /\ LoadEnded
    /\ LastError("load_to_database") = "INSERT failed"
    /\ Len(xcom["fot_stats"].val) = 2
    /\ pre.db.rows # <<>>
    /\ db.rows = pre.db.rows

\* C6: with an empty or absent hand-off value load_to_database raises
\* ValueError, the step does not succeed, and the database is as it was:
\* the table is neither created nor changed.
C6_EmptyInputFails ==
    (LoadEnded /\ (~xcom["fot_stats"].present \/ xcom["fot_stats"].val = <<>>))
        => /\ LastError("load_to_database") = "ValueError"
           /\ ti["load_to_database"] # "success"
           /\ db = pre.db

C6_Witness ==
    /\ LoadEnded
    /\ xcom["fot_stats"].present /\ xcom["fot_stats"].val = <<>>
    /\ LastError("load_to_database") = "ValueError"
    /\ db = NoTable

---------------------------------------------------------------------------
(* generate_report on its own: any table a load can have left.             *)

ReportTables ==
    {NoTable} \cup {LoadedTable(st, seq, 0) : st \in StatsInputs, seq \in {0, 1}}

InitReport ==
    /\ ti = Running("generate_report")
    /\ runs = NoRuns
    /\ xcom = EmptyXcom
    /\ inFiles = [n \in {"employees.csv", "projects.xlsx", "rates.json"} |-> Missing]
    /\ db \in ReportTables
    /\ outFiles \in {NoFiles, WrittenFiles(PreviousTable.rows, 0)}
    /\ outbox = <<>>
    /\ clock = 0
    /\ last = "none"
    /\ pre = Snapshot

NextReport == RunReport \/ Reinvoke("generate_report")

SpecReport == InitReport /\ [][NextReport]_vars

ReportEnded == last = "generate_report" /\ ti["generate_report"] # "running"
ReportSucceeded == ReportEnded /\ LastError("generate_report") = "none"

\* Errors raised because a statement of the environment failed, as opposed
\* to errors the data make the code raise.
EnvironmentErrors ==
    {"read failed", "connect failed", "CREATE failed", "DELETE failed",
     "INSERT failed", "COMMIT failed", "SELECT failed", "report write failed", "CSV write failed",
     "xcom_push failed", "send_email failed", "fallback send_email failed"}

SameRows(a, b) ==
    /\ Len(a) = Len(b)
    /\ \A r \in {a[i] : i \in 1..Len(a)} \cup {b[i] : i \in 1..Len(b)} :
          Cardinality({i \in 1..Len(a) : a[i] = r})
              = Cardinality({i \in 1..Len(b) : b[i] = r})

\* C10: whatever rows an existing table holds, also none, generate_report
\* raises only if a statement of the environment fails; when it returns, the
\* report has one block per row and the CSV one line per row, both in the
\* order handed to the Notifier, which is total_payment descending, the rows
\* are exactly the table's rows, and the project count is their number.
C10_ReportHoldsTableRows ==
    (ReportEnded /\ pre.db.exists)
        => /\ LastError("generate_report") \in {"none"} \cup EnvironmentErrors
           /\ ReportSucceeded =>
                LET df == xcom["result_data"].val
                    text == outFiles[ReportFile].report
                IN /\ xcom["result_data"].present
                   /\ SameRows(df, db.rows)
                   /\ \A i \in 1..(Len(df) - 1) :
                         df[i].total_payment >= df[i + 1].total_payment
                   /\ outFiles[CsvFile].exists /\ outFiles[CsvFile].rows = df
                   /\ outFiles[ReportFile].exists
                   /\ text.count = Len(db.rows)
                   /\ Len(text.blocks) = Len(df)
                   /\ \A i \in 1..Len(df) :
                         /\ text.blocks[i].project_id = df[i].project_id
                         /\ text.blocks[i].total_hours = df[i].total_hours
                         /\ text.blocks[i].total_payment.units = df[i].total_payment
                   /\ xcom["report"] = Some(text)

C10_Witness ==
    /\ ReportSucceeded
    /\ db.exists /\ db.rows = <<>>
    /\ outFiles[ReportFile].exists /\ outFiles[ReportFile].report.count = 0
    /\ outFiles[CsvFile].exists /\ outFiles[CsvFile].rows = <<>>
    /\ xcom["result_data"] = Some(<<>>)

---------------------------------------------------------------------------
(* send_email_with_attachments on its own: after a generate_report that    *)
(* succeeded, or without one.                                              *)

InitNotify ==
    /\ ti = Running("send_email_notification")
    /\ runs = NoRuns
    /\ inFiles = [n \in {"employees.csv", "projects.xlsx", "rates.json"} |-> Missing]
    /\ db \in ReportTables
    /\ \/ /\ xcom = EmptyXcom
          /\ outFiles \in {NoFiles, WrittenFiles(PreviousTable.rows, 0)}
       \/ /\ db.exists
          /\ \E df \in OrderByPaymentDesc(db.rows) :
               /\ xcom = PushReport(EmptyXcom, ReportText(df, 0), df)
               /\ outFiles \in {WrittenFiles(df, 0),
                                [WrittenFiles(df, 0) EXCEPT ![CsvFile] = NoFile],
                                NoFiles}
    /\ outbox = <<>>
    /\ clock = 0
    /\ last = "none"
    /\ pre = Snapshot

NextNotify == RunEmail \/ Reinvoke("send_email_notification")

SpecNotify == InitNotify /\ [][NextNotify]_vars

EmailEnded ==
    last = "send_email_notification" /\ ti["send_email_notification"] # "running"
EmailError == LastError("send_email_notification")
Sent == SubSeq(outbox, Len(pre.outbox) + 1, Len(outbox))

\* C8 as stated: when composing or sending the full email fails, a fallback
\* email without attachments that names the failure is sent and the original
\* error is propagated; the step succeeds only if the full email was sent,
\* and then no fallback is sent.
C8_AsStated ==
    EmailEnded
        => /\ EmailError # "none" =>
                /\ EmailError \in {"TypeError", "send_email failed"}
                /\ Len(Sent) = 1
                /\ Sent[1].kind = "fallback" /\ Sent[1].files = <<>>
                /\ Sent[1].note = EmailError
                /\ ti["send_email_notification"] # "success"
           /\ EmailError = "none" =>
                /\ ti["send_email_notification"] = "success"
                /\ Len(Sent) = 1 /\ Sent[1].kind = "full"

\* C8 amended: when composing or sending the full email fails, the step
\* tries to send a fallback email.  If that send succeeds, exactly one email
\* is sent, the fallback, without attachments and naming the failure, and the
\* original error is propagated.  If that send raises too, no email is sent
\* and the error of the fallback send is propagated.  Either way the step
\* does not succeed.  The step succeeds only if the full email was sent, with
\* the files that exist attached, and then no fallback is sent.
C8_FallbackThenFail ==
    EmailEnded
        => /\ pre.outbox = SubSeq(outbox, 1, Len(pre.outbox))
           /\ \/ /\ EmailError = "none"
                 /\ ti["send_email_notification"] = "success"
                 /\ xcom["result_data"].present
                 /\ Sent = <<[kind |-> "full",
                              table |-> HtmlTable(xcom["result_data"].val),
                              files |-> Attachments(outFiles),
                              note |-> "none"]>>
              \/ /\ EmailError \in {"TypeError", "send_email failed"}
                 /\ EmailError = "TypeError" <=> ~xcom["result_data"].present
                 /\ ti["send_email_notification"] # "success"
                 /\ Sent = <<[kind |-> "fallback", table |-> <<>>,
                              files |-> <<>>, note |-> EmailError]>>
              \/ /\ EmailError = "fallback send_email failed"
                 /\ ti["send_email_notification"] # "success"
                 /\ Sent = <<>>

C8_Witness ==
    /\ EmailEnded
    /\ EmailError = "send_email failed"
    /\ ti["send_email_notification"] = "failed"
    /\ Len(outbox) = 2
    /\ outbox[1].kind = "fallback" /\ outbox[2].kind = "fallback"
    /\ Attachments(outFiles) # <<>>

---------------------------------------------------------------------------
(* Claims about a whole DAG run (Spec) *)

Started(t) == ti[t] \in {"running", "success", "failed", "up_for_retry"}

\* The dependencies the specification names.
DeclaredPredecessors ==
    [t \in Tasks |->
        IF t = "transform_data"
        THEN {"extract_emplooyes", "extract_projects", "extract_rates"}
        ELSE IF t = "load_to_database" THEN {"transform_data"}
        ELSE IF t = "generate_report" THEN {"load_to_database"}
        ELSE IF t = "send_email_notification" THEN {"generate_report"}
        ELSE {}]

RECURSIVE Ancestors(_)
Ancestors(t) ==
    DeclaredPredecessors[t] \cup UNION {Ancestors(u) : u \in DeclaredPredecessors[t]}

\* C7: a task has started only if every declared predecessor has succeeded,
\* and while a task is failed nothing downstream of it has started.
C7_StartsAfterPredecessorsSucceed ==
    /\ \A t \in Tasks : Started(t) => \A u \in Ancestors(t) : ti[u] = "success"
    /\ \A t \in Tasks :
          ti[t] = "failed" => \A d \in Tasks : t \in Ancestors(d) => ~Started(d)

C7_Witness ==
    /\ ti["send_email_notification"] = "running"
    /\ Len(runs["extract_rates"]) = 2
    /\ Len(runs["load_to_database"]) = 2

\* What the last invocation changed.
PushedKeys == {k \in Keys : xcom[k] # pre.xcom[k]}
RowsChanged == db.rows # pre.db.rows
ReportWritten == outFiles[ReportFile] # pre.outFiles[ReportFile]
CsvWritten == outFiles[CsvFile] # pre.outFiles[CsvFile]
NoEffect ==
    /\ PushedKeys = {}
    /\ ~RowsChanged
    /\ ~ReportWritten /\ ~CsvWritten
    /\ Sent = <<>>

PushedBy ==
    [t \in Extracts |->
        IF t = "extract_emplooyes" THEN "employees_data"
        ELSE IF t = "extract_projects" THEN "projects_data" ELSE "rates_data"]
ReadBy ==
    [t \in Extracts |->
        IF t = "extract_emplooyes" THEN "employees.csv"
        ELSE IF t = "extract_projects" THEN "projects.xlsx" ELSE "rates.json"]

=============================================================================
